---- MODULE Spec2Model ----
(***************************************************************************)
(* The /scrape job of src/src/app.js as a state machine: one request is    *)
(* validated, a session is acquired (connectWithRetry), a page is opened   *)
(* and navigated, the scroll target is located, the convergence detector   *)
(* (scrollToBottomAndWaitForStability) runs, the content is extracted      *)
(* (extractPageContent), page and session are released and one response is *)
(* sent.  The remote browser is the environment: every external call may   *)
(* succeed or throw, the page may close and the session may drop at any    *)
(* moment.  Times are in milliseconds, as in the source.                   *)
(***************************************************************************)
EXTENDS Integers, Sequences, FiniteSets, TLC

(* ------------------------------ bounds -------------------------------- *)
\* largest maxScrolls a request supplies
MaxScrollsIn == 2
\* largest DOM node count a measurement returns
MaxNodes == 2
\* largest maxRetries given to connectWithRetry
MaxRetriesIn == 4
\* a baseDelay other than the default
OtherBaseDelay == 250
\* an external call resolves after 0 or CallLatency ms
CallLatency == 250
\* a timer fires on time or TimerJitter ms late
TimerJitter == 100
\* Date.now() when the request arrives (always positive)
StartTime == 1

(* ------------------------- program constants -------------------------- *)
DefaultMaxScrolls == 40
DefaultScrollDelayMs == 5000
DefaultTimeoutMs == 1200000
ConnectMaxRetries == 3
ConnectBaseDelay == 1000
ExtractMaxRetries == 3
MinHtmlLength == 100
ExtractBackoffMs == 1000
ExtractSettleMs == 500
FinalRenderMs == 2000
ClosedDocLength == 72
FailedDocLength == 74
MinIdleMs == 500
MaxIdleMs == 2000
FallbackScrollDelayMs == 800
DefaultCheckIntervalMs == 500

DEFAULTS ==
  [maxScrolls |-> DefaultMaxScrolls,
   scrollDelayMs |-> DefaultScrollDelayMs,
   timeoutMs |-> DefaultTimeoutMs]

(* ------------------------------ helpers ------------------------------- *)
Max(a, b) == IF a >= b THEN a ELSE b
Min(a, b) == IF a <= b THEN a ELSE b

RECURSIVE Pow2(_)
Pow2(n) == IF n <= 0 THEN 1 ELSE 2 * Pow2(n - 1)

\* { ...DEFAULTS, ...(req.body || {}) }
MergeInput(body) ==
  [k \in (DOMAIN DEFAULTS) \cup (DOMAIN body) |->
     IF k \in DOMAIN body THEN body[k] ELSE DEFAULTS[k]]

\* input.<k> of a key that may be absent: undefined is falsy, as 0 is
Field(in, k) == IF k \in DOMAIN in THEN in[k] ELSE 0

\* mutant of UrlMissing: only an absent key counts as missing
UrlMissingKeyOnly(in) == "url" \notin DOMAIN in

\* !url, app.js 253
UrlMissing(in) == "url" \notin DOMAIN in \/ in.url = ""

\* a request field that is either absent or one of vals
Opt(k, vals) == {<<>>} \cup {k :> v : v \in vals}

Url == "https://example.com/feed"

\* the request bodies explored
Bodies ==
  {u @@ ms @@ t @@ si @@ sd :
     u \in Opt("url", {"", Url}),
     ms \in {"maxScrolls" :> n : n \in 0..MaxScrollsIn},
     t \in {"timeoutMs" :> v : v \in {600, 1800}},
     si \in Opt("stabilityIdleMs", {200}),
     sd \in Opt("scrollDelayMs", {0})}

Err(m, c) == [message |-> m, cause |-> c]
NoErr == Err("", "")

\* a document: how it was obtained and its length
Doc(k, n) == [kind |-> k, len |-> n]
NoDoc == Doc("none", 0)

NoResp ==
  [status |-> 0, stable |-> FALSE, html |-> NoDoc, error |-> NoErr, took |-> 0]

\* the delays by which an awaited call of the detector may resolve; the clock
\* is read only at app.js 124, 147, 187, 198, 199 (and 249, 348 for `took`), so
\* the calls outside the detector are taken as instantaneous
CallDelays == {0, CallLatency}
\* the delays by which the detector's setTimeout(r, ms) may resolve
TimerDelays(ms) == {ms, ms + TimerJitter}

VARIABLES
  input,       \* the merged request settings
  pc,          \* position of the handler
  now,         \* Date.now()
  browserSet,  \* the handler's `browser` variable is assigned
  connected,   \* browser.isConnected()
  pageSet,     \* the handler's `page` variable is assigned
  pageClosed,  \* page.isClosed()
  lost,        \* the page or the session was lost while the try block was running
  cAttempt,    \* connectWithRetry: attempt
  lastError,   \* connectWithRetry: lastError.message
  backoffs,    \* connectWithRetry: the delays waited so far
  staleDisc,   \* disconnect() calls on sessions that failed the liveness check
  notLive,     \* sessions obtained by connect() that did not report themselves live
  cMax,        \* connectWithRetry: maxRetries
  cBase,       \* connectWithRetry: baseDelay
  err,         \* the error caught by the handler
  markerSet,   \* an element of the page carries data-scrape-scroll
  idleMs,      \* stabilityIdleMs as computed by the handler
  checkMs,     \* checkIntervalMs as computed by the handler
  endTime,     \* detector: endTime
  lastCount,   \* detector: lastCount
  attempt,     \* detector: attempt
  stableStart, \* detector: stableStart (0 stands for null)
  stable,      \* detector result: "none", "true", "false"
  scrolls,     \* scroll commands issued to the page
  changedAt,   \* time of the last measurement that differed from lastCount
  retAt,       \* time at which the detector returned
  measFailed,  \* a measurement of the detector failed and its 0 was used
  lastFailed,  \* the detector's latest measurement failed
  grew,        \* a measurement after the scroll differed from lastCount
  waitAt,      \* time at which the latest poll wait began
  why,         \* the return statement by which the detector returned
  target,      \* the element the detector's latest in-page command resolved to
  eAttempt,    \* extractPageContent: attempt
  eMax,        \* extractPageContent: maxRetries
  retrieved,   \* extractPageContent: retrieval calls made
  yields,      \* lengths the retrievals of the current attempt yielded (-1: threw)
  html,        \* the document returned by extractPageContent
  closeCalls,  \* page.close() calls
  discCalls,   \* browser.disconnect() calls on the job's session
  closeFailed, \* page.close() threw
  cleanup,     \* cleanup steps run so far, in order
  resp,        \* the response sent
  respCount,   \* responses sent
  order,       \* the handler's steps around the detector, in the order they ran
  loopPc,      \* deadline-race variant: what infiniteScroll is awaiting
  loopI,       \* deadline-race variant: infiniteScroll's i
  raceResult,  \* deadline-race variant: how the Promise.race settled
  stabI,       \* deadline-race variant: waitForElementStability's i
  lateCmds     \* deadline-race variant: commands infiniteScroll issued after the timer won

vars ==
  <<input, pc, now, browserSet, connected, pageSet, pageClosed, lost, cAttempt,
    lastError, backoffs, staleDisc, notLive, cMax, cBase, err, markerSet, idleMs, checkMs, endTime,
    lastCount, attempt, stableStart, stable, scrolls, changedAt, retAt,
    measFailed, lastFailed, grew, waitAt, why, target, eAttempt, eMax, retrieved, yields, html,
    closeCalls, discCalls,
    closeFailed, cleanup, resp, respCount, order, loopPc, loopI, raceResult,
    stabI, lateCmds>>

connVars == <<cAttempt, lastError, backoffs, staleDisc, notLive, cMax, cBase>>
detVars ==
  <<endTime, lastCount, attempt, stableStart, stable, scrolls, changedAt,
    retAt, measFailed, lastFailed, grew, waitAt, why, target>>
extVars == <<eAttempt, eMax, retrieved, yields, html>>
relVars == <<closeCalls, discCalls, closeFailed, cleanup>>
envVars == <<browserSet, connected, pageSet, pageClosed, lost>>
outVars == <<resp, respCount>>
setVars == <<input, idleMs, checkMs, markerSet>>
raceVars == <<loopPc, loopI, raceResult, stabI, lateCmds>>
auxVars == <<order, raceVars>>

Init ==
  /\ input \in {MergeInput(b) : b \in Bodies}
  /\ pc = "validate"
  /\ now = StartTime
  /\ browserSet = FALSE /\ connected = FALSE
  /\ pageSet = FALSE /\ pageClosed = FALSE /\ lost = FALSE
  /\ cAttempt = 1 /\ lastError = "" /\ backoffs = <<>> /\ staleDisc = 0
  /\ notLive = 0 /\ cMax = ConnectMaxRetries /\ cBase = ConnectBaseDelay
  /\ err = NoErr
  /\ markerSet = FALSE
  /\ idleMs = 0 /\ checkMs = 0
  /\ endTime = 0 /\ lastCount = 0 /\ attempt = 0 /\ stableStart = 0
  /\ stable = "none" /\ scrolls = 0 /\ changedAt = 0 /\ retAt = 0
  /\ measFailed = FALSE /\ lastFailed = FALSE /\ grew = FALSE
  /\ waitAt = 0 /\ why = "" /\ target = ""
  /\ eAttempt = 1 /\ eMax = ExtractMaxRetries
  /\ retrieved = 0 /\ yields = <<>> /\ html = NoDoc
  /\ closeCalls = 0 /\ discCalls = 0 /\ closeFailed = FALSE /\ cleanup = <<>>
  /\ resp = NoResp /\ respCount = 0
  /\ order = <<>>
  /\ loopPc = "off" /\ loopI = 0 /\ raceResult = "" /\ stabI = 0 /\ lateCmds = 0

\* mutant of Throw: the error is answered without the catch's cleanup
ThrowUncaught(e) == /\ err' = e /\ pc' = "respond_error"

\* throw inside the handler's try block: control goes to the catch
Throw(e) == /\ err' = e /\ pc' = "catch_close"

\* outcomes of an awaited call on the page or the session
PageCall == IF pageClosed \/ ~connected THEN {"throw"} ELSE {"ok", "throw"}

(* ------------------------- request validation ------------------------- *)
\* mutant of Validate: the 400 response is sent without returning
ValidateFallsThrough ==
  /\ pc = "validate"
  /\ IF UrlMissing(input)
       THEN /\ resp' = [NoResp EXCEPT !.status = 400,
                          !.error = Err("Missing \"url\" in request body", "")]
            /\ respCount' = respCount + 1
       ELSE UNCHANGED outVars
  /\ pc' = "connect"
  /\ UNCHANGED <<now, err, envVars, connVars, detVars, extVars, relVars, setVars,
                 auxVars>>

\* app.js 249-254
Validate ==
  /\ pc = "validate"
  /\ IF UrlMissing(input)
       THEN /\ resp' = [NoResp EXCEPT !.status = 400,
                          !.error = Err("Missing \"url\" in request body", "")]
            /\ respCount' = respCount + 1
            /\ pc' = "done"
       ELSE /\ pc' = "connect"
            /\ UNCHANGED outVars
  /\ UNCHANGED <<now, err, envVars, connVars, detVars, extVars, relVars, setVars,
                 auxVars>>

(* -------------------------- Session Connector ------------------------- *)
\* mutant of BackoffDelay: the exponent is the attempt number
BackoffDelayOffByOne(base, n) == base * Pow2(n)

\* baseDelay * Math.pow(2, attempt - 1), app.js 46
BackoffDelay(base, n) == base * Pow2(n - 1)

\* underlying errors of puppeteer.connect
ConnectErrors == {"ECONNREFUSED", "connect timeout"}
NotReady == "Browser connected but not ready"

\* mutant of PassesLiveness: the session is returned without the check
PassesLivenessAlways(live) == TRUE

\* app.js 34: browser.isConnected() of the session just obtained
PassesLiveness(live) == live

\* the message of a TypeError raised by reading a property of undefined
UndefinedRead == "TypeError: Cannot read properties of undefined (reading 'message')"

\* app.js 41-50: the catch of one attempt
ConnectFailed(m) ==
  /\ lastError' = m
  /\ cAttempt' = cAttempt + 1
  /\ pc' = "connect"
  /\ IF cAttempt < cMax
       THEN /\ now' = now + BackoffDelay(cBase, cAttempt)
            /\ backoffs' = Append(backoffs, BackoffDelay(cBase, cAttempt))
       ELSE /\ now' = now
            /\ backoffs' = backoffs
  /\ UNCHANGED <<browserSet, connected, lost, err>>

\* app.js 24-50: one iteration of the retry loop; connect() either throws or
\* resolves with a session that is live or not
ConnectAttempt ==
  /\ pc = "connect"
  /\ cAttempt <= cMax
  /\ \/ \E m \in ConnectErrors :
          /\ ConnectFailed(m)
          /\ UNCHANGED <<staleDisc, notLive>>
     \/ \E live \in BOOLEAN :
          /\ notLive' = IF live THEN notLive ELSE notLive + 1
          /\ IF PassesLiveness(live)
               THEN /\ connected' = live
                    /\ pc' = "connect_ret"
                    /\ UNCHANGED <<now, browserSet, lost, cAttempt, lastError,
                                   backoffs, staleDisc, err>>
               ELSE /\ ConnectFailed(NotReady)
                    /\ staleDisc' = staleDisc + 1
  /\ UNCHANGED <<cMax, cBase, pageSet, pageClosed, detVars, extVars, relVars, setVars,
                 outVars, auxVars>>

\* app.js 36 and 260: the live session is returned and assigned to `browser`;
\* the connector's locals are gone
ConnectReturn ==
  /\ pc = "connect_ret"
  /\ browserSet' = TRUE
  /\ cAttempt' = 1 /\ lastError' = "" /\ backoffs' = <<>> /\ staleDisc' = 0
  /\ notLive' = 0
  /\ pc' = "check_connected"
  /\ UNCHANGED <<cMax, cBase, now, err, connected, pageSet, pageClosed, lost,
                 detVars, extVars, relVars, setVars, outVars, auxVars>>

\* app.js 52-54: the loop has ended without a return; with no attempt made
\* lastError is undefined and reading lastError.message throws
ConnectGiveUp ==
  /\ pc = "connect"
  /\ cAttempt > cMax
  /\ IF lastError = ""
       THEN Throw(Err(UndefinedRead, ""))
       ELSE Throw(Err("Failed to connect after attempts", lastError))
  /\ cAttempt' = 1 /\ lastError' = "" /\ backoffs' = <<>> /\ staleDisc' = 0
  /\ notLive' = 0
  /\ UNCHANGED <<cMax, cBase, now, envVars, detVars, extVars, relVars, setVars,
                 outVars, auxVars>>

(* ---------------------- handler: up to navigation --------------------- *)
\* a step of the try block that advances to `next` or throws `e`
Step(from, next, ok, e) ==
  /\ pc = from
  /\ IF ok THEN pc' = next /\ err' = err ELSE Throw(e)

\* app.js 263-265
CheckConnected ==
  /\ Step("check_connected", "new_page", connected,
          Err("Browser connection lost immediately after connect", ""))
  /\ UNCHANGED <<now, envVars, connVars, detVars, extVars, relVars, setVars, outVars, auxVars>>

\* app.js 267
NewPage ==
  /\ \E r \in (IF connected THEN {"ok", "throw"} ELSE {"throw"}) :
       /\ Step("new_page", "set_viewport", r = "ok", Err("newPage failed", ""))
       /\ pageSet' = (r = "ok")
  /\ UNCHANGED <<now, browserSet, connected, pageClosed, lost, connVars, detVars,
                 extVars, relVars, setVars, outVars, auxVars>>

\* app.js 268
SetViewport ==
  /\ \E r \in PageCall :
       Step("set_viewport", "set_user_agent", r = "ok", Err("setViewport failed", ""))
  /\ UNCHANGED <<now, envVars, connVars, detVars, extVars, relVars, setVars, outVars, auxVars>>

\* app.js 271-278
SetUserAgent ==
  /\ \E r \in PageCall :
       Step("set_user_agent", "goto", r = "ok", Err("setUserAgent failed", ""))
  /\ UNCHANGED <<now, envVars, connVars, detVars, extVars, relVars, setVars, outVars, auxVars>>

\* app.js 281
Goto ==
  /\ \E r \in PageCall :
       /\ Step("goto", "check_before_locate", r = "ok", Err("Navigation timeout", ""))
       /\ order' = IF r = "ok" THEN Append(order, "goto") ELSE order
  /\ UNCHANGED <<now, envVars, connVars, detVars, extVars, relVars, setVars, outVars, raceVars>>

\* app.js 284-286
CheckBeforeLocate ==
  /\ Step("check_before_locate", "locate", connected,
          Err("Browser connection lost before scroll detection", ""))
  /\ UNCHANGED <<now, envVars, connVars, detVars, extVars, relVars, setVars, outVars, auxVars>>

(* ------------------------ Scroll Target Locator ----------------------- *)
\* mutant of GetScrollTargetSelector: a rejected evaluation is not caught
GetScrollTargetSelectorRaises ==
  /\ pc = "locate"
  /\ order' = Append(order, "locate")
  /\ IF pageClosed
       THEN /\ markerSet' = FALSE
            /\ pc' = "settings" /\ err' = err
       ELSE \E r \in PageCall \cup {"inner catch"} :
              /\ markerSet' = (r = "ok")
              /\ IF r = "throw"
                   THEN Throw(Err("frame detached", ""))
                   ELSE pc' = "settings" /\ err' = err
  /\ UNCHANGED <<now, input, idleMs, checkMs, envVars, connVars, detVars, extVars,
                 relVars, outVars, raceVars>>

\* app.js 216-243: always returns the marker selector; the marker is set only
\* when the in-page evaluation ran to its end
GetScrollTargetSelector ==
  /\ pc = "locate"
  /\ order' = Append(order, "locate")
  /\ IF pageClosed
       THEN markerSet' = FALSE
       ELSE \E r \in PageCall \cup {"inner catch"} : markerSet' = (r = "ok")
  /\ pc' = "settings"
  /\ UNCHANGED <<now, input, idleMs, checkMs, err, envVars, connVars, detVars, extVars,
                 relVars, outVars, raceVars>>

\* app.js 291-294
StabilityIdleMs(in) ==
  IF Field(in, "stabilityIdleMs") # 0
    THEN Field(in, "stabilityIdleMs")
    ELSE Max(MinIdleMs,
             Min(MaxIdleMs,
                 IF in.scrollDelayMs # 0 THEN in.scrollDelayMs
                                         ELSE FallbackScrollDelayMs))

CheckIntervalMs(in) ==
  IF Field(in, "checkIntervalMs") # 0
    THEN Field(in, "checkIntervalMs")
    ELSE DefaultCheckIntervalMs

\* app.js 291-299
Settings ==
  /\ Step("settings", "det_init", connected,
          Err("Browser connection lost before scrolling", ""))
  /\ idleMs' = StabilityIdleMs(input)
  /\ checkMs' = CheckIntervalMs(input)
  /\ UNCHANGED <<input, markerSet, now, envVars, connVars, detVars, extVars, relVars,
                 outVars, auxVars>>

(* ------------------------ Convergence Detector ------------------------ *)
\* app.js 127-141: the value getCount resolves to, and whether it was measured
GetCount ==
  IF pageClosed \/ ~connected
    THEN {[v |-> 0, ok |-> FALSE]}
    ELSE {[v |-> n, ok |-> TRUE] : n \in 0..MaxNodes} \cup {[v |-> 0, ok |-> FALSE]}

\* app.js 131-134, 160-163: document.querySelector(sel) ||
\* document.scrollingElement || document.body
ResolveTarget(marked) == IF marked THEN "marked" ELSE "root"

\* getCount awaits the page only when it is not closed, app.js 129-130
CountDelays == IF pageClosed THEN {0} ELSE CallDelays

\* mutant of ForContinues: the attempt bound is inclusive
ForContinuesInclusive(att, maxS, t, endT) == att <= maxS /\ t < endT

\* app.js 147: the guard of the for loop
ForContinues(att, maxS, t, endT) == att < maxS /\ t < endT

\* mutant of WhileContinues: the observation loop has no deadline
WhileContinuesForever(t, endT) == TRUE

\* mutant of WhileContinues: the loop gives up one poll before the deadline
WhileContinuesEarly(t, endT) == t + DefaultCheckIntervalMs < endT

\* mutant of WhileContinues: the loop starts one more wait after the deadline
WhileContinuesLate(t, endT) == t < endT + DefaultCheckIntervalMs

\* app.js 187: the guard of the observation loop
WhileContinues(t, endT) == t < endT

\* mutant of NextStableStart: a change does not clear stableStart
NextStableStartKept(cur, last, ss, t) ==
  IF cur = last THEN (IF ss = 0 THEN t ELSE ss) ELSE ss

\* app.js 197-204: stableStart after a measurement cur taken at time t
NextStableStart(cur, last, ss, t) ==
  IF cur = last THEN (IF ss = 0 THEN t ELSE ss) ELSE 0

\* app.js 199
WindowReached(t, ss, idle) == t - ss >= idle

\* return of scrollToBottomAndWaitForStability at time t
DetReturn(b, w, t) ==
  /\ stable' = b
  /\ why' = w
  /\ retAt' = t
  /\ pc' = "det_ret"

\* app.js 124, 143
DetInit ==
  /\ pc = "det_init"
  /\ endTime' = now + input.timeoutMs
  /\ \E d \in CountDelays, m \in GetCount :
       /\ now' = now + d
       /\ lastCount' = m.v
       /\ measFailed' = ~m.ok
       /\ lastFailed' = ~m.ok
       /\ changedAt' = now + d
       /\ target' = IF m.ok THEN ResolveTarget(markerSet) ELSE target
  /\ pc' = "det_for"
  /\ UNCHANGED <<attempt, stableStart, stable, scrolls, retAt, grew, waitAt, why>>
  /\ UNCHANGED <<err, envVars, connVars, extVars, relVars, setVars, outVars, auxVars>>

\* app.js 145-186: the loop guard, the closed-page check and the scroll command
DetScroll ==
  /\ pc = "det_for"
  /\ IF ~ForContinues(attempt, input.maxScrolls, now, endTime)
       THEN /\ DetReturn("false",
                         IF attempt < input.maxScrolls THEN "deadline" ELSE "exhausted",
                         now)
            /\ UNCHANGED <<now, scrolls, stableStart, target>>
       ELSE IF pageClosed
         THEN /\ DetReturn("false", "closed", now)
              /\ UNCHANGED <<now, scrolls, stableStart, target>>
         ELSE \E d \in CallDelays, r \in PageCall :
                /\ now' = now + d
                /\ IF r = "ok"
                     THEN /\ scrolls' = scrolls + 1
                          /\ stableStart' = 0
                          /\ target' = ResolveTarget(markerSet)
                          /\ pc' = "det_while"
                          /\ UNCHANGED <<stable, why, retAt>>
                     ELSE /\ DetReturn("false", "scroll failed", now + d)
                          /\ UNCHANGED <<scrolls, stableStart, target>>
  /\ UNCHANGED <<endTime, lastCount, attempt, changedAt, measFailed, lastFailed,
                 grew, waitAt>>
  /\ UNCHANGED <<err, envVars, connVars, extVars, relVars, setVars, outVars, auxVars>>

\* app.js 187-188 and 206-211: the observation loop's guard and its poll wait;
\* leaving the loop breaks out of the for loop as well
DetWait ==
  /\ pc = "det_while"
  /\ IF WhileContinues(now, endTime)
       THEN /\ \E w \in TimerDelays(checkMs) : now' = now + w
            /\ waitAt' = now
            /\ pc' = "det_poll"
            /\ UNCHANGED <<stable, why, retAt>>
       ELSE /\ DetReturn("false", "deadline", now)
            /\ UNCHANGED <<now, waitAt>>
  /\ UNCHANGED <<endTime, lastCount, attempt, stableStart, scrolls, changedAt,
                 measFailed, lastFailed, grew, target>>
  /\ UNCHANGED <<err, envVars, connVars, extVars, relVars, setVars, outVars, auxVars>>

\* app.js 190-204: one measurement of the observation loop
DetPoll ==
  /\ pc = "det_poll"
  /\ IF pageClosed
       THEN /\ DetReturn("false", "closed", now)
            /\ UNCHANGED <<now, lastCount, stableStart, changedAt, measFailed,
                           lastFailed, grew, target>>
       ELSE \E d \in CountDelays, m \in GetCount :
              /\ now' = now + d
              /\ measFailed' = (measFailed \/ ~m.ok)
              /\ lastFailed' = ~m.ok
              /\ target' = IF m.ok THEN ResolveTarget(markerSet) ELSE target
              /\ stableStart' = NextStableStart(m.v, lastCount, stableStart, now + d)
              /\ IF m.v = lastCount
                   THEN /\ UNCHANGED <<lastCount, changedAt, grew>>
                        /\ IF WindowReached(now + d, stableStart', idleMs)
                             THEN DetReturn("true", "stable", now + d)
                             ELSE /\ pc' = "det_while"
                                  /\ UNCHANGED <<stable, why, retAt>>
                   ELSE /\ lastCount' = m.v
                        /\ changedAt' = now + d
                        /\ grew' = TRUE
                        /\ pc' = "det_while"
                        /\ UNCHANGED <<stable, why, retAt>>
  /\ UNCHANGED <<endTime, attempt, scrolls, waitAt>>
  /\ UNCHANGED <<err, envVars, connVars, extVars, relVars, setVars, outVars, auxVars>>

\* mutant of DetExit: a detector result of false is raised as a job error
DetExitStrict ==
  /\ pc = "det_ret"
  /\ order' = Append(order, "detect")
  /\ endTime' = 0 /\ lastCount' = 0 /\ attempt' = 0 /\ stableStart' = 0
  /\ changedAt' = 0 /\ retAt' = 0 /\ measFailed' = FALSE /\ lastFailed' = FALSE
  /\ grew' = FALSE /\ waitAt' = 0 /\ why' = "" /\ target' = ""
  /\ IF stable = "false"
       THEN Throw(Err("scrolling did not reach stability", ""))
       ELSE pc' = "rm_marker" /\ err' = err
  /\ UNCHANGED <<stable, scrolls, now, envVars, connVars, extVars, relVars,
                 setVars, outVars, raceVars>>

\* app.js 301: the detector's result is assigned to `stable`; its locals are gone
DetExit ==
  /\ pc = "det_ret"
  /\ order' = Append(order, "detect")
  /\ endTime' = 0 /\ lastCount' = 0 /\ attempt' = 0 /\ stableStart' = 0
  /\ changedAt' = 0 /\ retAt' = 0 /\ measFailed' = FALSE /\ lastFailed' = FALSE
  /\ grew' = FALSE /\ waitAt' = 0 /\ why' = "" /\ target' = ""
  /\ pc' = "rm_marker"
  /\ UNCHANGED <<stable, scrolls, now, err, envVars, connVars, extVars, relVars,
                 setVars, outVars, raceVars>>

(* ----------------- handler: marker removal and settle ----------------- *)
\* mutant of RemoveMarker: the marker is left on the page
RemoveMarkerSkipped ==
  /\ pc = "rm_marker"
  /\ pc' = "settle"
  /\ UNCHANGED <<now, order, input, idleMs, checkMs, markerSet, err, envVars, connVars,
                 detVars, extVars, relVars, outVars, raceVars>>

\* mutant of RemoveMarker: a failing removal is raised to the handler's catch
RemoveMarkerRaises ==
  /\ pc = "rm_marker"
  /\ order' = Append(order, "unmark")
  /\ \E r \in PageCall :
       /\ markerSet' = (markerSet /\ r # "ok")
       /\ IF r = "ok"
            THEN pc' = "settle" /\ err' = err
            ELSE Throw(Err("marker removal failed", ""))
  /\ UNCHANGED <<now, input, idleMs, checkMs, envVars, connVars, detVars, extVars,
                 relVars, outVars, raceVars>>

\* app.js 311-316: errors are swallowed
RemoveMarker ==
  /\ pc = "rm_marker"
  /\ order' = Append(order, "unmark")
  /\ \E r \in PageCall : markerSet' = (markerSet /\ r # "ok")
  /\ pc' = "settle"
  /\ UNCHANGED <<now, input, idleMs, checkMs, err, envVars, connVars, detVars, extVars,
                 relVars, outVars, raceVars>>

\* app.js 318-325
Settle ==
  /\ pc = "settle"
  /\ order' = Append(order, "extract")
  /\ now' = now + FinalRenderMs
  /\ pc' = "ext_try"
  /\ UNCHANGED <<err, envVars, connVars, detVars, extVars, relVars, setVars, outVars, raceVars>>

(* -------------------------- Content Extractor ------------------------- *)
ClosedDoc == Doc("page closed", ClosedDocLength)
FailedDoc == Doc("extraction failed", FailedDocLength)

\* lengths a retrieval may yield: null or empty, the minimum, above it
RetrievedLengths == {0, MinHtmlLength, MinHtmlLength + 1}

\* mutant of Plausible: any non-empty string is accepted
PlausibleNonEmpty(n) == n > 0

\* mutant of Plausible: a string of exactly the minimum length is accepted
PlausibleLoose(n) == n >= MinHtmlLength

\* app.js 68, 79
Plausible(n) == n > MinHtmlLength

\* mutant of ClosedAtAttempt: the attempt does not look at the page's state
ClosedAtAttemptIgnored == FALSE

\* app.js 60: page.isClosed() at the head of an attempt
ClosedAtAttempt == pageClosed

\* app.js 85: a retrieval that threw yields no length; recorded below any length
Threw == 0 - 1

\* return of extractPageContent
ExtReturn(doc) == /\ html' = doc /\ pc' = "ext_ret"

\* app.js 110: the value of a call whose loop ended without a return
UndefinedDoc == Doc("undefined", 0)

\* app.js 58-71: the loop condition, the closed-page check and the primary
\* retrieval
ExtPrimary ==
  /\ pc = "ext_try"
  /\ IF eAttempt > eMax
       THEN /\ ExtReturn(UndefinedDoc)
            /\ UNCHANGED <<now, retrieved, yields>>
       ELSE IF ClosedAtAttempt
         THEN /\ ExtReturn(ClosedDoc)
              /\ UNCHANGED <<now, retrieved, yields>>
         ELSE \E r \in PageCall :
                /\ now' = now
                /\ retrieved' = retrieved + 1
                /\ IF r = "ok"
                     THEN \E n \in RetrievedLengths :
                            /\ yields' = <<n>>
                            /\ IF Plausible(n)
                                 THEN ExtReturn(Doc("primary", n))
                                 ELSE pc' = "ext_alt" /\ html' = html
                     ELSE /\ yields' = <<Threw>>
                          /\ pc' = "ext_catch" /\ html' = html
  /\ UNCHANGED <<eAttempt, eMax, err, envVars, connVars, detVars, relVars, setVars, outVars,
                 auxVars>>

\* app.js 73-84: the secondary retrieval
ExtSecondary ==
  /\ pc = "ext_alt"
  /\ \E r \in PageCall :
       /\ now' = now
       /\ retrieved' = retrieved + 1
       /\ IF r = "ok"
            THEN \E n \in RetrievedLengths :
                   /\ yields' = Append(yields, n)
                   /\ IF Plausible(n)
                        THEN ExtReturn(Doc("secondary", n))
                        ELSE pc' = "ext_catch" /\ html' = html
            ELSE /\ yields' = Append(yields, Threw)
                 /\ pc' = "ext_catch" /\ html' = html
  /\ UNCHANGED <<eAttempt, eMax, err, envVars, connVars, detVars, relVars, setVars, outVars, auxVars>>

\* mutant of ExtCatch: the failure of the last attempt is raised to the handler
ExtCatchRaises ==
  /\ pc = "ext_catch"
  /\ yields' = <<>>
  /\ IF eAttempt < eMax
       THEN /\ now' = now + ExtractBackoffMs * eAttempt
            /\ pc' = "ext_settle"
            /\ UNCHANGED <<html, err>>
       ELSE /\ Throw(Err("Content too short or empty", ""))
            /\ UNCHANGED <<html, now>>
  /\ UNCHANGED <<eAttempt, eMax, retrieved, envVars, connVars, detVars, relVars,
                 setVars, outVars, auxVars>>

\* app.js 85-93, 103-107: the catch of one attempt
ExtCatch ==
  /\ pc = "ext_catch"
  /\ yields' = <<>>
  /\ IF eAttempt < eMax
       THEN /\ now' = now + ExtractBackoffMs * eAttempt
            /\ pc' = "ext_settle"
            /\ html' = html
       ELSE /\ ExtReturn(FailedDoc)
            /\ now' = now
  /\ UNCHANGED <<eAttempt, eMax, retrieved, err, envVars, connVars, detVars, relVars,
                 setVars, outVars, auxVars>>

\* app.js 95-102 and the loop increment of line 59
ExtSettle ==
  /\ pc = "ext_settle"
  /\ now' = IF ~pageClosed THEN now + ExtractSettleMs ELSE now
  /\ eAttempt' = eAttempt + 1
  /\ pc' = "ext_try"
  /\ UNCHANGED <<eMax, retrieved, yields, html, err, envVars, connVars, detVars,
                 relVars, setVars, outVars, auxVars>>

\* app.js 328: the document is assigned to `html`; the extractor's locals are gone
ExtExit ==
  /\ pc = "ext_ret"
  /\ eAttempt' = 1 /\ retrieved' = 0 /\ yields' = <<>>
  /\ pc' = "close_page"
  /\ UNCHANGED <<eMax, html, now, err, envVars, connVars, detVars, relVars, setVars,
                 outVars, auxVars>>

(* ------------------------- release and response ----------------------- *)
\* mutant of ClosePageStep: the page is never closed
ClosePageStepSkipped(from, next) ==
  /\ pc = from
  /\ cleanup' = Append(cleanup, "close")
  /\ pc' = next
  /\ UNCHANGED <<now, browserSet, connected, pageSet, pageClosed, lost, closeCalls,
                 closeFailed, discCalls>>

\* mutant of ClosePageStep: a failing page.close() skips the disconnect step
ClosePageStepAbort(from, next) ==
  /\ pc = from
  /\ cleanup' = Append(cleanup, "close")
  /\ IF pageSet /\ ~pageClosed
       THEN /\ closeCalls' = closeCalls + 1
            /\ \E r \in PageCall :
                 /\ pageClosed' = (r = "ok")
                 /\ closeFailed' = (r # "ok")
                 /\ pc' = IF r = "ok" THEN next
                          ELSE IF next = "disconnect" THEN "respond"
                          ELSE "respond_error"
       ELSE /\ pc' = next
            /\ UNCHANGED <<closeCalls, pageClosed, closeFailed>>
  /\ UNCHANGED <<now, browserSet, connected, pageSet, lost, discCalls>>

\* app.js 331-337 and 367-373: close the page unless it is closed already;
\* a failure is logged and the next step runs
ClosePageStep(from, next) ==
  /\ pc = from
  /\ cleanup' = Append(cleanup, "close")
  /\ pc' = next
  /\ IF pageSet /\ ~pageClosed
       THEN /\ closeCalls' = closeCalls + 1
            /\ \E r \in PageCall :
                 /\ pageClosed' = (r = "ok")
                 /\ closeFailed' = (r # "ok")
       ELSE UNCHANGED <<closeCalls, pageClosed, closeFailed>>
  /\ UNCHANGED <<now, browserSet, connected, pageSet, lost, discCalls>>

\* app.js 340-346 and 375-381: disconnect the session if it is connected
DisconnectStep(from, next) ==
  /\ pc = from
  /\ cleanup' = Append(cleanup, "disconnect")
  /\ pc' = next
  /\ IF browserSet /\ connected
       THEN /\ discCalls' = discCalls + 1
            /\ \E r \in {"ok", "throw"} : connected' = (r # "ok")
       ELSE UNCHANGED <<discCalls, connected>>
  /\ UNCHANGED <<now, browserSet, pageSet, pageClosed, lost, closeCalls, closeFailed>>

\* mutant of ClosePage: a failing page.close() is raised to the handler's catch
ClosePageRaises ==
  /\ pc = "close_page"
  /\ cleanup' = Append(cleanup, "close")
  /\ IF pageSet /\ ~pageClosed
       THEN /\ closeCalls' = closeCalls + 1
            /\ \E r \in PageCall :
                 /\ pageClosed' = (r = "ok")
                 /\ closeFailed' = (r # "ok")
                 /\ IF r = "ok"
                      THEN pc' = "disconnect" /\ err' = err
                      ELSE Throw(Err("page.close failed", ""))
       ELSE /\ pc' = "disconnect"
            /\ UNCHANGED <<closeCalls, pageClosed, closeFailed, err>>
  /\ UNCHANGED <<now, browserSet, connected, pageSet, lost, discCalls>>
  /\ UNCHANGED <<connVars, detVars, extVars, setVars, outVars, auxVars>>

\* app.js 330-337
ClosePage ==
  /\ ClosePageStep("close_page", "disconnect")
  /\ UNCHANGED <<err, connVars, detVars, extVars, setVars, outVars, auxVars>>

\* app.js 339-346
Disconnect ==
  /\ DisconnectStep("disconnect", "respond")
  /\ UNCHANGED <<err, connVars, detVars, extVars, setVars, outVars, auxVars>>

\* app.js 348-362
Respond ==
  /\ pc = "respond"
  /\ resp' = [status |-> 200, stable |-> (stable = "true"), html |-> html,
              error |-> NoErr, took |-> now - StartTime]
  /\ respCount' = respCount + 1
  /\ pc' = "done"
  /\ UNCHANGED <<now, err, envVars, connVars, detVars, extVars, relVars, setVars,
                 auxVars>>

\* app.js 366-373
CatchClosePage ==
  /\ ClosePageStep("catch_close", "catch_disconnect")
  /\ UNCHANGED <<err, connVars, detVars, extVars, setVars, outVars, auxVars>>

\* app.js 375-381
CatchDisconnect ==
  /\ DisconnectStep("catch_disconnect", "respond_error")
  /\ UNCHANGED <<err, connVars, detVars, extVars, setVars, outVars, auxVars>>

\* app.js 383
RespondError ==
  /\ pc = "respond_error"
  /\ resp' = [NoResp EXCEPT !.status = 500, !.error = err]
  /\ respCount' = respCount + 1
  /\ pc' = "done"
  /\ UNCHANGED <<now, err, envVars, connVars, detVars, extVars, relVars, setVars,
                 auxVars>>

(* ---------------------------- environment ----------------------------- *)
\* app.js 256-362: the handler has not entered its catch block
InTryBlock == pc \notin {"catch_close", "catch_disconnect", "respond_error"}

\* the page is closed from the remote side while the job runs
PageCloses ==
  /\ pc # "done"
  /\ pageSet /\ ~pageClosed
  /\ pageClosed' = TRUE
  /\ lost' = (lost \/ InTryBlock)
  /\ UNCHANGED <<pc, now, err, browserSet, connected, pageSet, connVars, detVars,
                 extVars, relVars, setVars, outVars, auxVars>>

\* the session is lost while the job runs
SessionDrops ==
  /\ pc # "done"
  /\ browserSet /\ connected
  /\ connected' = FALSE
  /\ lost' = (lost \/ InTryBlock)
  /\ UNCHANGED <<pc, now, err, browserSet, pageSet, pageClosed, connVars, detVars,
                 extVars, relVars, setVars, outVars, auxVars>>

Next ==
  \/ Validate
  \/ ConnectAttempt
  \/ ConnectReturn
  \/ ConnectGiveUp
  \/ CheckConnected
  \/ NewPage
  \/ SetViewport
  \/ SetUserAgent
  \/ Goto
  \/ CheckBeforeLocate
  \/ GetScrollTargetSelector
  \/ Settings
  \/ DetInit
  \/ DetScroll
  \/ DetWait
  \/ DetPoll
  \/ DetExit
  \/ RemoveMarker
  \/ Settle
  \/ ExtPrimary
  \/ ExtSecondary
  \/ ExtCatch
  \/ ExtSettle
  \/ ExtExit
  \/ ClosePage
  \/ Disconnect
  \/ Respond
  \/ CatchClosePage
  \/ CatchDisconnect
  \/ RespondError
  \/ PageCloses
  \/ SessionDrops

Spec == Init /\ [][Next]_vars

\* the steps of the handler itself, app.js 248-385
JobStep ==
  \/ Validate
  \/ ConnectAttempt
  \/ ConnectReturn
  \/ ConnectGiveUp
  \/ CheckConnected
  \/ NewPage
  \/ SetViewport
  \/ SetUserAgent
  \/ Goto
  \/ CheckBeforeLocate
  \/ GetScrollTargetSelector
  \/ Settings
  \/ DetInit
  \/ DetScroll
  \/ DetWait
  \/ DetPoll
  \/ DetExit
  \/ RemoveMarker
  \/ Settle
  \/ ExtPrimary
  \/ ExtSecondary
  \/ ExtCatch
  \/ ExtSettle
  \/ ExtExit
  \/ ClosePage
  \/ Disconnect
  \/ Respond
  \/ CatchClosePage
  \/ CatchDisconnect
  \/ RespondError

\* the requests of the fair runs: the short deadline, default scroll delay
LiveBodies == {b \in Bodies : b.timeoutMs = 600 /\ "scrollDelayMs" \notin DOMAIN b}

LiveInit == Init /\ input \in {MergeInput(b) : b \in LiveBodies}

\* every awaited external call and timer of the handler returns: a step of
\* the handler that can be taken is taken
LiveSpec == LiveInit /\ [][Next]_vars /\ WF_vars(JobStep)

(* --------------- the Session Connector taken on its own --------------- *)
\* app.js 22: connectWithRetry called with any maxRetries and baseDelay
ConnStart ==
  /\ input \in {MergeInput(b) : b \in {c \in Bodies : ~UrlMissing(c)}}
  /\ pc = "connect"
  /\ now = StartTime
  /\ browserSet = FALSE /\ connected = FALSE
  /\ pageSet = FALSE /\ pageClosed = FALSE /\ lost = FALSE
  /\ cAttempt = 1 /\ lastError = "" /\ backoffs = <<>> /\ staleDisc = 0
  /\ notLive = 0
  /\ cMax \in 0..MaxRetriesIn
  /\ cBase \in {ConnectBaseDelay, OtherBaseDelay}
  /\ err = NoErr
  /\ markerSet = FALSE
  /\ idleMs = 0 /\ checkMs = 0
  /\ endTime = 0 /\ lastCount = 0 /\ attempt = 0 /\ stableStart = 0
  /\ stable = "none" /\ scrolls = 0 /\ changedAt = 0 /\ retAt = 0
  /\ measFailed = FALSE /\ lastFailed = FALSE /\ grew = FALSE
  /\ waitAt = 0 /\ why = "" /\ target = ""
  /\ eAttempt = 1 /\ eMax = ExtractMaxRetries
  /\ retrieved = 0 /\ yields = <<>> /\ html = NoDoc
  /\ closeCalls = 0 /\ discCalls = 0 /\ closeFailed = FALSE /\ cleanup = <<>>
  /\ resp = NoResp /\ respCount = 0
  /\ order = <<>>
  /\ loopPc = "off" /\ loopI = 0 /\ raceResult = "" /\ stabI = 0 /\ lateCmds = 0

\* app.js 22-55: the steps of connectWithRetry
ConnNext ==
  \/ ConnectAttempt
  \/ ConnectReturn
  \/ ConnectGiveUp

ConnSpec == ConnStart /\ [][ConnNext]_vars

(* ------------- the Convergence Detector taken on its own -------------- *)
\* app.js 301-308: the states in which the handler calls the detector, after
\* a first connection attempt that succeeded
DetStart ==
  /\ input \in {MergeInput(b) : b \in {c \in Bodies : ~UrlMissing(c)}}
  /\ pc = "det_init"
  /\ now = StartTime
  /\ browserSet = TRUE /\ connected \in BOOLEAN
  /\ pageSet = TRUE /\ pageClosed \in BOOLEAN
  /\ lost = (pageClosed \/ ~connected)
  /\ cAttempt = 1 /\ lastError = "" /\ backoffs = <<>> /\ staleDisc = 0
  /\ notLive = 0 /\ cMax = ConnectMaxRetries /\ cBase = ConnectBaseDelay
  /\ err = NoErr
  /\ markerSet \in BOOLEAN
  /\ idleMs = StabilityIdleMs(input) /\ checkMs = CheckIntervalMs(input)
  /\ endTime = 0 /\ lastCount = 0 /\ attempt = 0 /\ stableStart = 0
  /\ stable = "none" /\ scrolls = 0 /\ changedAt = 0 /\ retAt = 0
  /\ measFailed = FALSE /\ lastFailed = FALSE /\ grew = FALSE
  /\ waitAt = 0 /\ why = "" /\ target = ""
  /\ eAttempt = 1 /\ eMax = ExtractMaxRetries
  /\ retrieved = 0 /\ yields = <<>> /\ html = NoDoc
  /\ closeCalls = 0 /\ discCalls = 0 /\ closeFailed = FALSE /\ cleanup = <<>>
  /\ resp = NoResp /\ respCount = 0
  /\ order = <<"goto", "locate">>
  /\ loopPc = "off" /\ loopI = 0 /\ raceResult = "" /\ stabI = 0 /\ lateCmds = 0

\* app.js 116-212: the steps of scrollToBottomAndWaitForStability
DetStep == DetInit \/ DetScroll \/ DetWait \/ DetPoll

DetNext ==
  \/ DetInit
  \/ DetScroll
  \/ DetWait
  \/ DetPoll
  \/ PageCloses
  \/ SessionDrops

\* every awaited call and timer of the detector returns (app.js 130, 157, 188):
\* a step of the detector that can be taken is taken
DetLive == DetStart /\ [][DetNext]_vars /\ WF_vars(DetStep)

(* --------------- the Content Extractor taken on its own --------------- *)
\* app.js 58: a call extractPageContent(page, maxRetries) in the state in which
\* the handler calls it (app.js 328) after a job without scrolling
ExtStart ==
  /\ input = MergeInput("url" :> Url @@ "maxScrolls" :> 0 @@ "timeoutMs" :> 600)
  /\ pc = "ext_try"
  /\ now = StartTime + FinalRenderMs
  /\ browserSet = TRUE /\ connected \in BOOLEAN
  /\ pageSet = TRUE /\ pageClosed \in BOOLEAN
  /\ lost = (pageClosed \/ ~connected)
  /\ cAttempt = 1 /\ lastError = "" /\ backoffs = <<>> /\ staleDisc = 0
  /\ notLive = 0 /\ cMax = ConnectMaxRetries /\ cBase = ConnectBaseDelay
  /\ err = NoErr
  /\ markerSet = FALSE
  /\ idleMs = StabilityIdleMs(input) /\ checkMs = CheckIntervalMs(input)
  /\ endTime = 0 /\ lastCount = 0 /\ attempt = 0 /\ stableStart = 0
  /\ stable = "false" /\ scrolls = 0 /\ changedAt = 0 /\ retAt = 0
  /\ measFailed = FALSE /\ lastFailed = FALSE /\ grew = FALSE
  /\ waitAt = 0 /\ why = "" /\ target = ""
  /\ eAttempt = 1 /\ eMax \in 0..MaxRetriesIn
  /\ retrieved = 0 /\ yields = <<>> /\ html = NoDoc
  /\ closeCalls = 0 /\ discCalls = 0 /\ closeFailed = FALSE /\ cleanup = <<>>
  /\ resp = NoResp /\ respCount = 0
  /\ order = <<"goto", "locate", "detect", "unmark", "extract">>
  /\ loopPc = "off" /\ loopI = 0 /\ raceResult = "" /\ stabI = 0 /\ lateCmds = 0

ExtNext ==
  \/ ExtPrimary
  \/ ExtSecondary
  \/ ExtCatch
  \/ ExtSettle
  \/ PageCloses
  \/ SessionDrops

ExtSpec == ExtStart /\ [][ExtNext]_vars

(* ============ the deadline-race variant, unnamed/part_000 ============= *)
\* part_000 175: attempts given to waitForElementStability
StabilityAttempts == 8

\* the variables no step of the variant writes
raceIdle ==
  <<input, now, idleMs, checkMs, connVars, endTime, lastCount, attempt, stableStart,
    stable, changedAt, retAt, measFailed, lastFailed, grew, waitAt, why, target,
    eAttempt, eMax, retrieved, yields, closeFailed, cleanup>>

\* part_000 135-143: the state on arrival of a request
RaceInit ==
  /\ input \in {MergeInput(b) : b \in Bodies}
  /\ pc = "r_validate"
  /\ now = StartTime
  /\ browserSet = FALSE /\ connected = FALSE
  /\ pageSet = FALSE /\ pageClosed = FALSE /\ lost = FALSE
  /\ cAttempt = 1 /\ lastError = "" /\ backoffs = <<>> /\ staleDisc = 0
  /\ notLive = 0 /\ cMax = ConnectMaxRetries /\ cBase = ConnectBaseDelay
  /\ err = NoErr
  /\ markerSet = FALSE
  /\ idleMs = 0 /\ checkMs = 0
  /\ endTime = 0 /\ lastCount = 0 /\ attempt = 0 /\ stableStart = 0
  /\ stable = "none" /\ scrolls = 0 /\ changedAt = 0 /\ retAt = 0
  /\ measFailed = FALSE /\ lastFailed = FALSE /\ grew = FALSE
  /\ waitAt = 0 /\ why = "" /\ target = ""
  /\ eAttempt = 1 /\ eMax = ExtractMaxRetries
  /\ retrieved = 0 /\ yields = <<>> /\ html = NoDoc
  /\ closeCalls = 0 /\ discCalls = 0 /\ closeFailed = FALSE /\ cleanup = <<>>
  /\ resp = NoResp /\ respCount = 0
  /\ order = <<>>
  /\ loopPc = "off" /\ loopI = 0 /\ raceResult = "" /\ stabI = 0 /\ lateCmds = 0

\* what infiniteScroll awaits when a command on the page is in flight
\* (part_000 27, 34, 56, 61, 72)
LoopCommands == {"height0", "scroll", "netidle", "height", "confirm"}

\* part_000 197-200: a throw inside the try block enters the catch, which
\* calls browser.disconnect() in the same synchronous run when `browser` is
\* set; the page is not touched
RaceThrow(e) ==
  /\ err' = e
  /\ IF browserSet
       THEN /\ discCalls' = discCalls + 1
            /\ \E r \in {"ok", "throw"} : connected' = (connected /\ r # "ok")
            /\ pc' = "r_disconnecting"
       ELSE /\ pc' = "r_respond_error"
            /\ UNCHANGED <<discCalls, connected>>

\* a step of the variant's try block that goes on to `next` or throws e
RaceStep(from, next, ok, e) ==
  /\ pc = from
  /\ IF ok
       THEN /\ pc' = next
            /\ UNCHANGED <<err, discCalls, connected>>
       ELSE RaceThrow(e)
  /\ UNCHANGED <<closeCalls, pageClosed>>

\* part_000 136-141
RaceValidate ==
  /\ pc = "r_validate"
  /\ IF UrlMissing(input)
       THEN /\ resp' = [NoResp EXCEPT !.status = 400,
                          !.error = Err("Missing \"url\" in request body", "")]
            /\ respCount' = respCount + 1
            /\ pc' = "done"
       ELSE /\ pc' = "r_connect"
            /\ UNCHANGED outVars
  /\ UNCHANGED <<err, envVars, markerSet, scrolls, html, closeCalls, discCalls, order,
                 raceVars, raceIdle>>

\* part_000 146-149: a single connection attempt
RaceConnect ==
  /\ pc = "r_connect"
  /\ \/ /\ browserSet' = TRUE /\ connected' = TRUE
        /\ pc' = "r_new_page"
        /\ UNCHANGED <<err, discCalls>>
     \/ \E m \in ConnectErrors :
          /\ err' = Err(m, "")
          /\ pc' = "r_respond_error"
          /\ UNCHANGED <<browserSet, connected, discCalls>>
  /\ UNCHANGED <<pageSet, pageClosed, lost, markerSet, scrolls, html, closeCalls,
                 outVars, order, raceVars, raceIdle>>

\* part_000 151
RaceNewPage ==
  /\ \E r \in (IF connected THEN {"ok", "throw"} ELSE {"throw"}) :
       /\ RaceStep("r_new_page", "r_viewport", r = "ok", Err("newPage failed", ""))
       /\ pageSet' = (r = "ok")
  /\ UNCHANGED <<browserSet, lost, markerSet, scrolls, html, outVars, order, raceVars,
                 raceIdle>>

\* part_000 152
RaceSetViewport ==
  /\ \E r \in PageCall :
       RaceStep("r_viewport", "r_agent", r = "ok", Err("setViewport failed", ""))
  /\ UNCHANGED <<browserSet, pageSet, lost, markerSet, scrolls, html, outVars, order,
                 raceVars, raceIdle>>

\* part_000 154-156
RaceSetUserAgent ==
  /\ \E r \in PageCall :
       RaceStep("r_agent", "r_goto", r = "ok", Err("setUserAgent failed", ""))
  /\ UNCHANGED <<browserSet, pageSet, lost, markerSet, scrolls, html, outVars, order,
                 raceVars, raceIdle>>

\* part_000 158
RaceGoto ==
  /\ \E r \in PageCall :
       /\ RaceStep("r_goto", "r_locate", r = "ok", Err("Navigation timeout", ""))
       /\ order' = IF r = "ok" THEN Append(order, "goto") ELSE order
  /\ UNCHANGED <<browserSet, pageSet, lost, markerSet, scrolls, html, outVars,
                 raceVars, raceIdle>>

\* part_000 89-110, 161: this getScrollTargetSelector has no outer try
RaceLocate ==
  /\ \E r \in PageCall \cup {"inner catch"} :
       /\ RaceStep("r_locate", "r_start", r # "throw", Err("evaluate failed", ""))
       /\ markerSet' = (r = "ok")
       /\ order' = IF r # "throw" THEN Append(order, "locate") ELSE order
  /\ UNCHANGED <<browserSet, pageSet, lost, scrolls, html, outVars, raceVars, raceIdle>>

\* what the handler leaves alone while infiniteScroll runs
loopIdle ==
  <<pc, err, envVars, markerSet, html, closeCalls, discCalls, outVars, order,
    raceResult, stabI, raceIdle>>

\* infiniteScroll goes on to await `next`; a command that reaches a usable
\* page after the timer has won the race is counted
LoopIssue(next) ==
  /\ loopPc' = next
  /\ scrolls' = IF next = "scroll" THEN scrolls + 1 ELSE scrolls
  /\ lateCmds' = IF raceResult = "timeout" /\ next \in LoopCommands
                     /\ connected /\ ~pageClosed
                   THEN lateCmds + 1 ELSE lateCmds

\* part_000 33: the guard of the for loop with counter i
LoopEnter(i) ==
  IF i < input.maxScrolls THEN LoopIssue("scroll") ELSE LoopIssue("resolved")

\* part_000 164-169: infiniteScroll is called and runs to its first await, the
\* timer is set, and the handler awaits the race
RaceStart ==
  /\ pc = "r_start"
  /\ pc' = "r_race"
  /\ loopPc' = "height0"
  /\ UNCHANGED <<err, envVars, markerSet, scrolls, html, closeCalls, discCalls, outVars,
                 order, loopI, raceResult, stabI, lateCmds, raceIdle>>

\* part_000 27-33: the initial height has been read
LoopInitial ==
  /\ loopPc = "height0"
  /\ \E r \in PageCall :
       IF r = "ok" THEN LoopEnter(loopI) ELSE LoopIssue("rejected")
  /\ UNCHANGED <<loopI, loopIdle>>

\* part_000 34-52: the scroll command has returned
LoopScrolled ==
  /\ loopPc = "scroll"
  /\ \E r \in PageCall :
       IF r = "ok" THEN LoopIssue("delay") ELSE LoopIssue("rejected")
  /\ UNCHANGED <<loopI, loopIdle>>

\* part_000 52-56: the delay has passed
LoopDelayed ==
  /\ loopPc = "delay"
  /\ LoopIssue("netidle")
  /\ UNCHANGED <<loopI, loopIdle>>

\* part_000 54-67: waitForNetworkIdle has returned or thrown, both ignored
LoopNetworkIdle ==
  /\ loopPc = "netidle"
  /\ LoopIssue("height")
  /\ UNCHANGED <<loopI, loopIdle>>

\* part_000 61-71, 81-84: the new height has been read
LoopMeasured ==
  /\ loopPc = "height"
  /\ \E r \in PageCall :
       IF r = "ok"
         THEN \E same \in BOOLEAN :
                IF same
                  THEN LoopIssue("grace") /\ loopI' = loopI
                  ELSE LoopEnter(loopI + 1) /\ loopI' = loopI + 1
         ELSE LoopIssue("rejected") /\ loopI' = loopI
  /\ UNCHANGED loopIdle

\* part_000 71-72: the grace period has passed
LoopGraced ==
  /\ loopPc = "grace"
  /\ LoopIssue("confirm")
  /\ UNCHANGED <<loopI, loopIdle>>

\* part_000 72-80: the confirming height has been read
LoopConfirmed ==
  /\ loopPc = "confirm"
  /\ \E r \in PageCall :
       IF r = "ok"
         THEN \E same \in BOOLEAN :
                IF same
                  THEN LoopIssue("resolved") /\ loopI' = loopI
                  ELSE LoopEnter(loopI + 1) /\ loopI' = loopI + 1
         ELSE LoopIssue("rejected") /\ loopI' = loopI
  /\ UNCHANGED loopIdle

\* mutant of RaceTimerFires: the handler goes on after the timeout
RaceTimerIgnored ==
  /\ pc = "r_race"
  /\ loopPc \notin {"resolved", "rejected"}
  /\ raceResult' = "timeout"
  /\ pc' = "r_stability"
  /\ UNCHANGED <<err, discCalls, connected, closeCalls, pageClosed>>
  /\ UNCHANGED <<browserSet, pageSet, lost, markerSet, scrolls, html, outVars, order,
                 loopPc, loopI, stabI, lateCmds, raceIdle>>

\* part_000 166-168, 197: the timer rejects the race with 'scroll-timeout'
\* while infiniteScroll is still running; infiniteScroll is not cancelled
RaceTimerFires ==
  /\ pc = "r_race"
  /\ loopPc \notin {"resolved", "rejected"}
  /\ raceResult' = "timeout"
  /\ RaceThrow(Err("scroll-timeout", ""))
  /\ UNCHANGED <<closeCalls, pageClosed, browserSet, pageSet, lost, markerSet, scrolls, html, outVars, order,
                 loopPc, loopI, stabI, lateCmds, raceIdle>>

\* part_000 164-172: infiniteScroll returned first
RaceLoopResolves ==
  /\ pc = "r_race"
  /\ loopPc = "resolved"
  /\ raceResult' = "resolved"
  /\ pc' = "r_stability"
  /\ UNCHANGED <<err, envVars, markerSet, scrolls, html, closeCalls, discCalls, outVars,
                 order, loopPc, loopI, stabI, lateCmds, raceIdle>>

\* part_000 164-169, 197: infiniteScroll threw first
RaceLoopRejects ==
  /\ pc = "r_race"
  /\ loopPc = "rejected"
  /\ raceResult' = "rejected"
  /\ RaceThrow(Err("evaluate failed", ""))
  /\ UNCHANGED <<closeCalls, pageClosed, browserSet, pageSet, lost, markerSet, scrolls, html, outVars, order,
                 loopPc, loopI, stabI, lateCmds, raceIdle>>

\* part_000 119-122, 172: the first measurement of waitForElementStability
RaceStabilityFirst ==
  /\ \E r \in PageCall :
       /\ RaceStep("r_stability", "r_stab_poll", r = "ok", Err("evaluate failed", ""))
       /\ order' = Append(order, "stability")
  /\ UNCHANGED <<browserSet, pageSet, lost, markerSet, scrolls, html, outVars,
                 raceVars, raceIdle>>

\* part_000 123-132: one pass of waitForElementStability's loop, or its end
RaceStabilityPoll ==
  /\ pc = "r_stab_poll"
  /\ IF stabI < StabilityAttempts
       THEN \E r \in PageCall :
              IF r = "ok"
                THEN /\ \E same \in BOOLEAN :
                          IF same
                            THEN pc' = "r_unmark" /\ stabI' = stabI
                            ELSE pc' = pc /\ stabI' = stabI + 1
                     /\ UNCHANGED <<err, discCalls, connected>>
                ELSE /\ RaceThrow(Err("evaluate failed", ""))
                     /\ stabI' = stabI
       ELSE /\ pc' = "r_unmark"
            /\ UNCHANGED <<stabI, err, discCalls, connected>>
  /\ UNCHANGED <<closeCalls, pageClosed, browserSet, pageSet, lost, markerSet, scrolls,
                 html, outVars, order, loopPc, loopI, raceResult, lateCmds, raceIdle>>

\* part_000 180-185: errors are swallowed
RaceRemoveMarker ==
  /\ pc = "r_unmark"
  /\ \E r \in PageCall : markerSet' = (markerSet /\ r # "ok")
  /\ order' = Append(order, "unmark")
  /\ pc' = "r_content"
  /\ UNCHANGED <<err, envVars, scrolls, html, closeCalls, discCalls, outVars, raceVars,
                 raceIdle>>

\* part_000 188: page.content(), of any length
RaceContent ==
  /\ \E r \in PageCall :
       /\ RaceStep("r_content", "r_close", r = "ok", Err("content failed", ""))
       /\ IF r = "ok"
            THEN \E n \in RetrievedLengths : html' = Doc("primary", n)
            ELSE html' = html
  /\ order' = Append(order, "content")
  /\ UNCHANGED <<browserSet, pageSet, lost, markerSet, scrolls, outVars, raceVars,
                 raceIdle>>

\* part_000 191: page.close() inside the try block
RaceClosePage ==
  /\ pc = "r_close"
  /\ closeCalls' = closeCalls + 1
  /\ \E r \in PageCall :
       IF r = "ok"
         THEN /\ pageClosed' = TRUE
              /\ pc' = "r_disconnect"
              /\ UNCHANGED <<err, discCalls, connected>>
         ELSE /\ pageClosed' = pageClosed
              /\ RaceThrow(Err("page.close failed", ""))
  /\ UNCHANGED <<browserSet, pageSet, lost, markerSet, scrolls, html, outVars, order,
                 raceVars, raceIdle>>

\* part_000 193: browser.disconnect() inside the try block; when it throws
\* the catch calls it again
RaceDisconnect ==
  /\ pc = "r_disconnect"
  /\ \/ /\ discCalls' = discCalls + 1
        /\ connected' = FALSE
        /\ pc' = "r_respond"
        /\ err' = err
     \/ /\ discCalls' = discCalls + 2
        /\ \E r \in {"ok", "throw"} : connected' = (connected /\ r # "ok")
        /\ err' = Err("disconnect failed", "")
        /\ pc' = "r_disconnecting"
  /\ UNCHANGED <<browserSet, pageSet, pageClosed, lost, markerSet, scrolls, html,
                 closeCalls, outVars, order, raceVars, raceIdle>>

\* part_000 195-196
RaceRespond ==
  /\ pc = "r_respond"
  /\ resp' = [status |-> 200, stable |-> FALSE, html |-> html, error |-> NoErr,
              took |-> now - StartTime]
  /\ respCount' = respCount + 1
  /\ pc' = "done"
  /\ UNCHANGED <<err, envVars, markerSet, scrolls, html, closeCalls, discCalls, order,
                 raceVars, raceIdle>>

\* part_000 199-200: the catch's disconnect call has returned or thrown
RaceCatchResumes ==
  /\ pc = "r_disconnecting"
  /\ pc' = "r_respond_error"
  /\ UNCHANGED <<err, envVars, markerSet, scrolls, html, closeCalls, discCalls, outVars,
                 order, raceVars, raceIdle>>

\* part_000 201
RaceRespondError ==
  /\ pc = "r_respond_error"
  /\ resp' = [NoResp EXCEPT !.status = 500, !.error = err]
  /\ respCount' = respCount + 1
  /\ pc' = "done"
  /\ UNCHANGED <<err, envVars, markerSet, scrolls, html, closeCalls, discCalls, order,
                 raceVars, raceIdle>>

RaceNext ==
  \/ RaceValidate
  \/ RaceConnect
  \/ RaceNewPage
  \/ RaceSetViewport
  \/ RaceSetUserAgent
  \/ RaceGoto
  \/ RaceLocate
  \/ RaceStart
  \/ LoopInitial
  \/ LoopScrolled
  \/ LoopDelayed
  \/ LoopNetworkIdle
  \/ LoopMeasured
  \/ LoopGraced
  \/ LoopConfirmed
  \/ RaceTimerFires
  \/ RaceLoopResolves
  \/ RaceLoopRejects
  \/ RaceStabilityFirst
  \/ RaceStabilityPoll
  \/ RaceRemoveMarker
  \/ RaceContent
  \/ RaceClosePage
  \/ RaceDisconnect
  \/ RaceRespond
  \/ RaceCatchResumes
  \/ RaceRespondError
  \/ PageCloses
  \/ SessionDrops

RaceSpec == RaceInit /\ [][RaceNext]_vars

(* ============================== claims ================================ *)
\* the request carries no url (independent of the handler's own test)
NoUrl == "url" \notin DOMAIN input \/ input.url = ""
\* a response other than the validation response has been sent
Answered == pc = "done" /\ resp.status # 400
BothSteps == <<"close", "disconnect">>

\* C1 as stated: when the response is sent, the job's Session has been
\* disconnected by exactly one disconnect call and its Page closed by exactly
\* one close call, on every outcome.
C1_ReleasedExactlyOnce ==
  Answered =>
    /\ (browserSet => discCalls = 1)
    /\ (pageSet => closeCalls = 1)

\* C1 amended: Page and Session are each released at most once; when the
\* response is sent the close call was made exactly once unless the page was
\* already closed at the cleanup step (then not at all), and the disconnect
\* call exactly once unless the session was already lost (then not at all).
C1_ReleasedAtMostOnce ==
  /\ closeCalls <= 1 /\ discCalls <= 1
  /\ (closeCalls = 1 => pageSet) /\ (discCalls = 1 => browserSet)
  /\ Answered =>
       /\ (pageSet /\ closeCalls = 0 => pageClosed)
       /\ (browserSet /\ discCalls = 0 => ~connected)

C1_Witness ==
  /\ Answered /\ resp.status = 200
  /\ pageSet /\ closeCalls = 0 /\ discCalls = 1

\* C2: on every exit path the page-close step runs before the
\* session-disconnect step, and the disconnect step still runs (and calls
\* disconnect on a connected session) when page.close() failed.
C2_CloseBeforeDisconnect ==
  /\ (discCalls > 0 \/ Len(cleanup) > 1) => cleanup[1] = "close"
  /\ cleanup \in {<<>>, <<"close">>, BothSteps}
  /\ Answered => cleanup = BothSteps
  /\ (Answered /\ closeFailed /\ discCalls = 0) => ~connected

C2_Witness == Answered /\ closeFailed /\ discCalls = 1

\* C3: a request without url is answered 400 and nothing external was called
\* (no session, no page, no cleanup call); every failure thrown in the job is
\* answered 500 with the thrown error's message, and the success response is
\* sent only when nothing was thrown.
C3_Responses ==
  pc = "done" =>
    /\ NoUrl =>
         /\ resp.status = 400
         /\ ~browserSet /\ ~connected /\ ~pageSet
         /\ closeCalls = 0 /\ discCalls = 0 /\ cleanup = <<>> /\ scrolls = 0
         /\ now = StartTime
    /\ ~NoUrl => resp.status \in {200, 500}
    /\ resp.status = 500 <=> (~NoUrl /\ err # NoErr)
    /\ resp.status = 500 =>
         /\ resp.error = err
         /\ err.message # ""
         /\ (err.message = "Failed to connect after attempts"
               => err.cause \in ConnectErrors \cup {NotReady})
    /\ resp.status = 200 => resp.error = NoErr

C3_Witness ==
  pc = "done" /\ resp.status = 500 /\ resp.error.message = "Navigation timeout"

\* C4: a failure thrown after URL validation is caught by the handler, the
\* page-close and session-disconnect steps run as on the success path, and
\* only then the 500 response is sent.
C4_FailureCleansUp ==
  /\ err # NoErr =>
       pc \in {"catch_close", "catch_disconnect", "respond_error", "done"}
  /\ (pc = "respond_error" \/ (pc = "done" /\ err # NoErr)) =>
       /\ cleanup = BothSteps
       /\ (pageSet /\ closeCalls = 0 => pageClosed)
       /\ (browserSet /\ discCalls = 0 => ~connected)
  /\ (pc = "done" /\ err # NoErr) => resp.status = 500

C4_Witness ==
  /\ pc = "done" /\ resp.status = 500
  /\ err.message = "setViewport failed"
  /\ closeCalls = 1 /\ discCalls = 1

\* C5 (state part): once the detector has returned false no error is raised,
\* and the response is the success response with stable = false, the
\* extractor's document, after both cleanup steps.
C5_Absorbed ==
  stable = "false" =>
    /\ err = NoErr
    /\ pc \in {"det_ret", "rm_marker", "settle", "ext_try", "ext_alt", "ext_catch",
               "ext_settle", "ext_ret", "close_page", "disconnect", "respond", "done"}
    /\ pc = "done" =>
         /\ resp.status = 200 /\ resp.stable = FALSE
         /\ resp.html = html /\ html # NoDoc
         /\ cleanup = BothSteps

\* C5 (step part): an extraction attempt that finds the page closed returns
\* the "page closed" sentinel.
C5_ClosedSentinel ==
  (pc = "ext_try" /\ pageClosed /\ pc' # "ext_try") =>
    (pc' = "ext_ret" /\ html' = ClosedDoc)

\* C5: whenever the Convergence Detector returns false the job does not fail:
\* it goes on through marker removal and extraction, releases its resources
\* and answers 200 with stable = false and the extractor's document, the
\* "page closed" sentinel when the page is closed.
C5_DetectorFalseIsSuccess == []C5_Absorbed /\ [][C5_ClosedSentinel]_vars

C5_Witness ==
  /\ pc = "done" /\ stable = "false"
  /\ resp.status = 200 /\ resp.html = ClosedDoc

\* C6: the detector returns true only when the measured metric has been
\* unchanged for at least idleMs: a measured change clears stableStart, so
\* the window never starts before the last change and true is never returned
\* earlier than idleMs after it.
C6_ContinuousIdleWindow ==
  /\ (pc \in {"det_while", "det_poll", "det_ret"} /\ stableStart # 0) =>
       stableStart >= changedAt
  /\ (pc = "det_ret" /\ stable = "true") =>
       /\ stableStart # 0
       /\ retAt - stableStart >= idleMs
       /\ retAt - changedAt >= idleMs

C6_Witness ==
  pc = "det_ret" /\ stable = "true" /\ grew /\ idleMs > DefaultCheckIntervalMs

\* C7 as stated: for a page whose metric grew after the scroll the detector
\* issues more than one scroll before it returns, when maxScrolls allows it
\* and the deadline has not passed.
C7_ScrollsAgain ==
  (pc = "det_ret" /\ grew /\ input.maxScrolls >= 2 /\ retAt < endTime
     /\ ~measFailed /\ why \notin {"closed", "scroll failed"}) =>
    scrolls >= 2

C9_NeverTrueAfterDeadline ==
  (pc = "det_ret" /\ stable = "true" /\ ~measFailed) => retAt < endTime

\* C9 amended: the deadline is tested before each poll wait: a wait that would
\* begin at or after the deadline is not started and false is returned; true
\* is returned only on the measurement that follows a wait begun before the
\* deadline, hence at most one poll wait and one measurement after it.
C9_TrueOnlyAfterWaitBegunInTime ==
  /\ (pc \in {"det_poll"} \/ (pc = "det_ret" /\ stable = "true")) =>
       waitAt < endTime
  /\ (pc = "det_ret" /\ stable = "true") =>
       retAt <= waitAt + checkMs + TimerJitter + CallLatency
  /\ (pc = "det_ret" /\ why = "deadline") => (stable = "false" /\ retAt >= endTime)

C9_Witness ==
  pc = "det_ret" /\ stable = "true" /\ ~measFailed /\ retAt >= endTime

\* C10 as stated: the detector never returns true on a measurement that
\* failed because the page was unreachable (taken before the deadline, so
\* that the late return of C9 plays no part).
C10_NoTrueOnFailedMeasure ==
  (pc = "det_ret" /\ stable = "true" /\ retAt < endTime) => ~lastFailed


\* the detector is running: between its first statement and its return
InDetector == pc \in {"det_for", "det_while", "det_poll"}

\* C11: the detector always terminates. While it runs the clock never passes
\* the deadline by more than one poll wait and one measurement, whatever the
\* measurements are, and a detector that was called eventually returns
\* true or false.
C11_DetectorTerminates ==
  /\ [](InDetector => now <= endTime + checkMs + TimerJitter + CallLatency)
  /\ [](pc = "det_ret" => stable \in {"true", "false"})
  /\ (pc = "det_init") ~> (pc = "det_ret")

\* the detector returned at the deadline although its last measurement had
\* changed once more
C11_Witness ==
  /\ pc = "det_ret" /\ stable = "false" /\ why = "deadline"
  /\ grew /\ stableStart = 0 /\ changedAt >= endTime

\* the delays connectWithRetry has waited after k failed attempts that were
\* each followed by another attempt
ExpectedBackoffs(k) == [i \in 1..k |-> cBase * 2^(i - 1)]

\* C12: the connector makes at most maxRetries attempts, numbered from 1; the
\* wait after failed attempt n < maxRetries is baseDelay * 2^(n-1), there is no
\* wait after the last attempt, and the first successful attempt returns.
C12_AttemptsAndBackoff ==
  /\ cAttempt >= 1
  /\ pc = "connect" =>
        /\ cAttempt <= Max(cMax, 0) + 1
        /\ backoffs = ExpectedBackoffs(Max(Min(cAttempt - 1, cMax - 1), 0))
  /\ pc = "connect_ret" =>
        /\ cAttempt <= cMax
        /\ backoffs = ExpectedBackoffs(cAttempt - 1)
  /\ pc \in {"connect", "connect_ret"} =>
        now = StartTime + (IF backoffs = <<>> THEN 0 ELSE cBase * (2^Len(backoffs) - 1))

\* two failures, then success on the third attempt of three
C12_Witness ==
  /\ pc = "connect_ret" /\ cMax = 3 /\ cAttempt = 3
  /\ backoffs = <<cBase, 2 * cBase>>

\* C13: every session that connect() delivered without being live was
\* disconnected and its attempt counted as failed, with the same retry and
\* backoff as a failed connect; a session the connector returns is live.
C13_NotLiveIsFailedAttempt ==
  /\ staleDisc = notLive
  /\ pc = "connect" => (notLive <= cAttempt - 1 /\ (lastError = NotReady => notLive >= 1))
  /\ pc = "connect_ret" => (connected /\ notLive <= cAttempt - 1)
  /\ pc \in {"connect", "catch_close"} => ~connected
  /\ (pc = "connect" /\ lastError = NotReady /\ cAttempt <= cMax) =>
        (backoffs # <<>> /\ backoffs[Len(backoffs)] = cBase * 2^(cAttempt - 2))

\* a session that was not live was dropped and the next attempt returned a
\* live one
C13_Witness ==
  /\ pc = "connect_ret" /\ connected
  /\ notLive = 1 /\ staleDisc = 1 /\ cAttempt = 2 /\ lastError = NotReady

\* the errors the connector is specified to fail with
ConnectionErrors ==
  {Err("Failed to connect after attempts", m) : m \in ConnectErrors \cup {NotReady}}

\* C14: when the connector fails, for every maxRetries, it fails with a
\* connection error that carries the error of the last attempt, and with no
\* other error.
C14_FailsWithLastError ==
  pc = "catch_close" => err \in ConnectionErrors

\* the extractor is running
InExtractor == pc \in {"ext_try", "ext_alt", "ext_catch", "ext_settle", "ext_ret"}

\* C15 (state part): no error arises from extraction, the "extraction failed"
\* sentinel is returned only by the last attempt, each attempt having made a
\* retrieval call, and a job whose extraction failed answers 200 with it.
C15_NoErrorFromExtractor ==
  /\ InExtractor => err = NoErr
  /\ err # NoErr => (html = NoDoc /\ retrieved = 0)
  /\ (pc = "ext_ret" /\ html = FailedDoc) =>
       (eAttempt = ExtractMaxRetries /\ retrieved >= ExtractMaxRetries)
  /\ (pc = "done" /\ html = FailedDoc) =>
       (resp.status = 200 /\ resp.html = FailedDoc /\ resp.error = NoErr)

\* C15 (step part): when the last attempt has failed the extractor returns
\* the "extraction failed" sentinel and raises nothing.
C15_LastFailureReturnsSentinel ==
  (pc = "ext_catch" /\ eAttempt >= ExtractMaxRetries /\ pc' # "ext_catch") =>
    (pc' = "ext_ret" /\ html' = FailedDoc /\ err' = NoErr)

\* C15: the extractor never fails the job: when every attempt fails it
\* returns the "extraction failed" sentinel without raising, and the job
\* completes with a success response carrying that sentinel.
C15_ExtractorNeverFailsJob ==
  []C15_NoErrorFromExtractor /\ [][C15_LastFailureReturnsSentinel]_vars

C15_Witness ==
  /\ pc = "done" /\ resp.status = 200 /\ resp.html = FailedDoc
  /\ respCount = 1 /\ closeCalls = 1

\* C16: within one attempt a plausible primary result is returned without the
\* secondary retrieval being invoked; the secondary retrieval is invoked only
\* after a short primary result, and its plausible result is returned in that
\* same attempt; an attempt fails only if nothing it retrieved was plausible.
C16_FallbackWithinAttempt ==
  /\ (pc = "ext_ret" /\ html.kind = "primary") =>
       (yields = <<html.len>> /\ html.len > MinHtmlLength)
  /\ (pc = "ext_ret" /\ html.kind = "secondary") =>
       /\ Len(yields) = 2
       /\ yields[1] \in 0..MinHtmlLength
       /\ yields[2] = html.len /\ html.len > MinHtmlLength
  /\ pc = "ext_alt" => (Len(yields) = 1 /\ yields[1] \in 0..MinHtmlLength)
  /\ pc = "ext_catch" =>
       /\ Len(yields) \in {1, 2}
       /\ \A i \in 1..Len(yields) : yields[i] <= MinHtmlLength

\* the primary retrieval yielded a string of the minimum length and the
\* secondary result was returned by the second attempt
C16_Witness ==
  /\ pc = "ext_ret" /\ html = Doc("secondary", MinHtmlLength + 1)
  /\ yields = <<MinHtmlLength, MinHtmlLength + 1>> /\ eAttempt = 2

\* C17 (step part): an attempt that finds the page closed returns the "page
\* closed" sentinel at once: no retrieval call, no wait, no further attempt.
C17_ClosedStep ==
  (pc = "ext_try" /\ pageClosed /\ pc' # "ext_try") =>
    /\ pc' = "ext_ret" /\ html' = ClosedDoc
    /\ retrieved' = retrieved /\ yields' = yields
    /\ now' = now /\ eAttempt' = eAttempt

\* C17: if the page reports itself closed when extraction is attempted the
\* extractor returns the "page closed" sentinel immediately, and it returns
\* that sentinel in no other case.
C17_ClosedPageSentinel ==
  /\ [][C17_ClosedStep]_vars
  /\ []((pc = "ext_ret" /\ html = ClosedDoc) => (pageClosed /\ yields = <<>>))

\* the page was closed during the first attempt; the second attempt returned
\* the sentinel
C17_Witness ==
  /\ pc = "ext_ret" /\ html = ClosedDoc /\ eAttempt = 2 /\ retrieved = 1

\* the errors of the handler's three connectivity checks
ConnectionLostErrors ==
  {Err("Browser connection lost immediately after connect", ""),
   Err("Browser connection lost before scroll detection", ""),
   Err("Browser connection lost before scrolling", "")}

\* the errors of the page calls the handler makes before detection
PageSetupErrors ==
  {Err("newPage failed", ""), Err("setViewport failed", ""),
   Err("setUserAgent failed", ""), Err("Navigation timeout", "")}

\* the handler has called the detector
DetectionStarted ==
  pc \in {"det_init", "det_for", "det_while", "det_poll", "det_ret", "rm_marker",
          "settle", "ext_try", "ext_alt", "ext_catch", "ext_settle", "ext_ret",
          "close_page", "disconnect", "respond"}

JobErrors == ConnectionErrors \cup ConnectionLostErrors \cup PageSetupErrors

\* the handler is at one of its cleanup steps
InCleanup == pc \in {"close_page", "disconnect", "catch_close", "catch_disconnect"}

\* C19 (state part): a job whose extraction has returned answers 200 with the
\* extracted document, and a job that failed answers 500 with the error its
\* try block raised.
C19_OutcomeAtResponse ==
  /\ (pc = "done" /\ html # NoDoc) =>
       (err = NoErr /\ resp.status = 200 /\ resp.html = html /\ resp.error = NoErr)
  /\ (pc = "done" /\ err # NoErr) =>
       (resp.status = 500 /\ resp.error = err /\ err \in JobErrors)

\* C19 (step part): a cleanup step, failing or not, moves on to the next step
\* of its own path and leaves the job's error and document as they are.
C19_CleanupStep ==
  (InCleanup /\ pc' # pc) =>
    /\ err' = err /\ html' = html
    /\ pc' = CASE pc = "close_page" -> "disconnect"
              [] pc = "disconnect" -> "respond"
              [] pc = "catch_close" -> "catch_disconnect"
              [] pc = "catch_disconnect" -> "respond_error"

\* C19: a failure of the page-close step or of the disconnect step never
\* changes the job's outcome: the success path still answers 200 with the
\* extracted content and the failure path still answers with the job's
\* original error.
C19_CleanupNeverEscalates == []C19_OutcomeAtResponse /\ [][C19_CleanupStep]_vars

\* both cleanup calls threw on the success path
C19_Witness ==
  /\ pc = "done" /\ closeFailed /\ closeCalls = 1
  /\ discCalls = 1 /\ connected
  /\ resp.status = 200 /\ resp.html.kind = "primary"

\* C20: with maxScrolls = 0 no scroll command is issued to the page, the
\* detector returns false for exhausted attempts, and the job goes on to
\* extract and answers 200 with the extractor's document.
C20_NoScrollWithZero ==
  input.maxScrolls = 0 =>
    /\ scrolls = 0
    /\ pc \notin {"det_while", "det_poll"}
    /\ pc = "det_ret" => (stable = "false" /\ why = "exhausted")
    /\ (pc = "done" /\ stable # "none") =>
         (resp.status = 200 /\ resp.html = html /\ html # NoDoc)

C20_Witness ==
  /\ pc = "done" /\ input.maxScrolls = 0 /\ scrolls = 0
  /\ resp.status = 200 /\ resp.html.kind = "primary" /\ ~resp.stable

\* C21 (step part): the locator call and the marker removal return to the
\* handler without raising, whatever the page does.
C21_LocatorStep ==
  /\ (pc = "locate" /\ pc' # "locate") => (pc' = "settings" /\ err' = NoErr)
  /\ (pc = "rm_marker" /\ pc' # "rm_marker") => (pc' = "settle" /\ err' = NoErr)

\* C21 (state part): the marker is on the page only if the in-page evaluation
\* ran to its end; without it every command of the detector that ran resolved
\* to the document's scrolling root, with it to the marked element.
C21_Fallback ==
  /\ (pc = "settings" /\ (pageClosed \/ ~connected)) => err = NoErr
  /\ (InDetector \/ pc = "det_ret") =>
       /\ target \in {"", ResolveTarget(markerSet)}
       /\ scrolls = 1 => target # ""
       /\ (stable = "true" /\ ~lastFailed /\ ~markerSet) => target = "root"

\* C21: the Scroll Target Locator never throws: with a closed page or a
\* failed or rejected evaluation it still returns the marker locator, and the
\* detector and the marker removal, resolving it to no element, work on the
\* scrolling root or do nothing, without failing.
C21_LocatorNeverThrows == []C21_Fallback /\ [][C21_LocatorStep]_vars

\* the evaluation of the locator was rejected, and the detector scrolled and
\* measured the scrolling root and found it stable
C21_Witness ==
  /\ pc = "det_ret" /\ ~markerSet /\ target = "root"
  /\ scrolls = 1 /\ stable = "true" /\ ~measFailed

\* the handler has called the extractor on the success path
ReachedExtraction ==
  pc \in {"ext_try", "ext_alt", "ext_catch", "ext_settle", "ext_ret", "close_page",
          "disconnect", "respond"} \/ (pc = "done" /\ html # NoDoc)

\* C22: in a job that reaches extraction the steps around the detector ran
\* once each and in this order: navigation, locator, detector, marker
\* removal, extraction; no retrieval call precedes the removal attempt, and
\* the removal, failing or not, is followed by extraction.
C22_MarkerLifecycle ==
  /\ ReachedExtraction => order = <<"goto", "locate", "detect", "unmark", "extract">>
  /\ retrieved > 0 => (Len(order) >= 4 /\ order[4] = "unmark")
  /\ pc = "settle" => (order = <<"goto", "locate", "detect", "unmark">> /\ err = NoErr)
  /\ \A i, j \in 1..Len(order) : order[i] = order[j] => i = j

\* the removal failed on a page that still carries the marker, and the job
\* extracted the document
C22_Witness ==
  /\ pc = "ext_ret" /\ markerSet /\ ~pageClosed /\ connected
  /\ html.kind = "primary"
  /\ order = <<"goto", "locate", "detect", "unmark", "extract">>
\* C23: in the deadline-race variant, when the timer wins the race the job
\* fails with 'scroll-timeout': the stability wait, the marker removal and the
\* content retrieval never run, the handler goes straight to the catch's
\* disconnect, and the response is the job-level error (500) carrying it.
C23_TimeoutFailsJob ==
  raceResult = "timeout" =>
    /\ pc \in {"r_disconnecting", "r_respond_error", "done"}
    /\ err = Err("scroll-timeout", "")
    /\ order = <<"goto", "locate">>
    /\ stabI = 0
    /\ html = NoDoc
    /\ discCalls = 1
    /\ pc = "done" => (respCount = 1 /\ resp.status = 500 /\ resp.error = err)

C23_Witness ==
  /\ pc = "done"
  /\ raceResult = "timeout"
  /\ scrolls >= 1
  /\ resp.status = 500
  /\ resp.error = Err("scroll-timeout", "")

\* C24: in the deadline-race variant, a finished job that opened a page has
\* called page.close() as well as browser.disconnect(), on every exit path.
C24_PageAndSessionReleased ==
  (pc = "done" /\ pageSet) => (closeCalls >= 1 /\ discCalls >= 1)

\* C25: in the deadline-race variant, once the timer has won the race the
\* abandoned scroll loop issues no command against the page, and none of its
\* commands is in flight while the catch's disconnect is.
C25_NoCommandAfterTimeout ==
  raceResult = "timeout" =>
    /\ lateCmds = 0
    /\ ~(pc = "r_disconnecting" /\ loopPc \in LoopCommands)

\* C26: every request to /scrape receives exactly one response, the 400
\* validation response, the 200 success response or the 500 error response:
\* never two, none before the handler ends, and, every external call and
\* timer returning, the handler ends having sent one.
C26_Responded ==
  /\ respCount <= 1
  /\ pc = "done" <=> respCount = 1
  /\ respCount = 0 => resp = NoResp
  /\ respCount = 1 => resp.status \in {200, 400, 500}

C26_ExactlyOneResponse == []C26_Responded /\ <>[](pc = "done" /\ respCount = 1)

C26_Witness ==
  /\ pc = "done"
  /\ respCount = 1
  /\ resp.status = 200
  /\ scrolls >= 1

\* C27: for every maxRetries >= 1 and every behaviour of the page, the value
\* returned by the Content Extractor is a retrieved document strictly longer
\* than 100 characters or one of the two sentinel documents; a short or empty
\* retrieved string is never returned.
C27_ReturnsContentOrSentinel ==
  (pc = "ext_ret" /\ eMax >= 1) =>
    \/ html \in {ClosedDoc, FailedDoc}
    \/ /\ html.kind \in {"primary", "secondary"}
       /\ html.len > MinHtmlLength

C27_Witness ==
  /\ pc = "ext_ret"
  /\ eMax = MaxRetriesIn
  /\ eAttempt = eMax
  /\ retrieved = 2 * eMax
  /\ html = Doc("secondary", MinHtmlLength + 1)

====
